---- MODULE Spec2Model ----
(***************************************************************************)
(* A model of the fabfile of fabric-puppet-ec2: the tasks create_master    *)
(* and create_slaves (fabfile/ec2.py), the launcher ec2_launch with its    *)
(* status poll, the memoised ec2_connect / ec2_security_group, the role    *)
(* lookup get_puppetmaster, the readiness loop wait_until_alive and the    *)
(* install tasks of fabfile/puppet.py.                                     *)
(*                                                                         *)
(* One fab process runs the tasks of its command line one after another.   *)
(* Every call that leaves the process (a cloud API call, a remote command, *)
(* an operator prompt) is one step.  The cloud, the remote hosts and the   *)
(* operator are the environment: their answers are drawn with \E.          *)
(*                                                                         *)
(* A Python string is a sequence of chunks (TLA+ strings), so that         *)
(* "%s" formatting is concatenation and can be looked into.                *)
(***************************************************************************)
EXTENDS Naturals, Sequences, FiniteSets, TLC

VARIABLES
    account,      \* the instances of the EC2 account, in creation order
    groups,       \* the security groups of the account
    creds,        \* AWS_ACCESS_KEY_ID / AWS_SECRET_ACCESS_KEY are set
    env,          \* fabric's env: working_master, working_slaves, host_string
    memo,         \* return values kept by @runs_once
    script,       \* the tasks of the command line still to run
    task,         \* the task that is running
    pc,           \* where the process is
    gpRet,        \* where get_puppetmaster returns to
    arg,          \* get_puppetmaster: its argument
    menu,         \* get_puppetmaster: the masters it filtered
    found,        \* get_puppetmaster: its return value (an instance handle)
    inst,         \* ec2_launch / create_*: the instance handle
    status,       \* ec2_launch: the local status
    name,         \* ec2_launch: its name parameter (<<>> is None)
    master,       \* create_slaves: the resolved master
    slave_name,   \* create_slaves: the prompted name
    i,            \* create_slaves: the position of the for loop in its range
    is_master,    \* install_slave: the master it resolved
    polls,        \* answers the cloud gave to the status checks of this launch
    probes,       \* probes of the running wait_until_alive
    polled,       \* what the latest status check did
    calls,        \* calls issued by the running task, by kind
    sg,           \* what the calls of ec2_security_group reported, in order
    launched,     \* handles of the instances this process launched
    lookups,      \* get_puppetmaster invocations made by a lookup session
    fatal         \* how the process ended, if it did

vars == <<account, groups, creds, env, memo, script, task, pc, gpRet, arg, menu,
          found, inst, status, name, master, slave_name, i, is_master, polls,
          probes, polled, calls, sg, launched, lookups, fatal>>

-----------------------------------------------------------------------------
(* Bounds of the model *)

MaxNum == 2      \* the largest count given to create_slaves
MaxPolls == 2    \* status checks of one launch that leave it pending
MaxProbes == 2   \* failed probes of one wait_until_alive
MaxPre == 2      \* instances of the account of a lookup session
MaxLookups == 2  \* get_puppetmaster invocations of a lookup session

-----------------------------------------------------------------------------
(* Strings *)

DigitChars == <<"0", "1", "2", "3", "4", "5", "6", "7", "8", "9">>

RECURSIVE Digits(_)
\* "%s" % n for a natural number n
Digits(n) ==
    IF n < 10 THEN <<DigitChars[n + 1]>>
    ELSE Digits(n \div 10) \o <<DigitChars[(n % 10) + 1]>>

\* the identifier the cloud gives its k-th instance
InstanceId(k) == <<"i-">> \o Digits(k)

RECURSIVE Contains(_, _)
\* part occurs in the chunks of text
Contains(text, part) ==
    /\ text # <<>>
    /\ \/ Head(text) = part
       \/ Contains(Tail(text), part)

-----------------------------------------------------------------------------
(* Settings: fabfile/ec2.py, lines 10-38 *)

ec2_key_pair_name == "puppet"
ec2_security_group_name == "puppet"
master_ec2_ami == "ami-136f3c56"
master_ec2_instance_type == "t1.micro"
slave_ec2_ami == "ami-136f3c56"
slave_ec2_instance_type == "m1.large"

-----------------------------------------------------------------------------
(* Instances and tags *)

EmptyTags == [k \in {} |-> <<>>]

HasTag(tags, key) == key \in DOMAIN tags

\* Instance.add_tag: the tag set after writing key=value
TagsWith(tags, key, value) ==
    [k \in DOMAIN tags \cup {key} |-> IF k = key THEN value ELSE tags[k]]

\* the write of the name tag is dropped
AddTagUnlessName(acct, h, key, value) ==
    IF key = "puppet:name" THEN acct
    ELSE [acct EXCEPT ![h].tags = TagsWith(acct[h].tags, key, value)]

\* inst.add_tag(key, value) on the instance with handle h
AddTag(acct, h, key, value) ==
    [acct EXCEPT ![h].tags = TagsWith(acct[h].tags, key, value)]

\* a command that ran to completion on the host of instance h
Executed(acct, h, cmd) ==
    [acct EXCEPT ![h].cmds = Append(acct[h].cmds, cmd)]

\* the instance a run-instances request creates
NewInstance(k, ami, instance_type, grp) ==
    [id |-> InstanceId(k), status |-> "pending", tags |-> EmptyTags,
     cmds |-> <<>>, ami |-> ami, instance_type |-> instance_type,
     key_name |-> ec2_key_pair_name, security_groups |-> {grp}]

NoCalls ==
    [run |-> 0, tag_name |-> 0, tag_type |-> 0, tag_master |-> 0,
     wait_alive |-> 0, install |-> 0, list_instances |-> 0, update |-> 0]

Count(kind) == [calls EXCEPT ![kind] = @ + 1]

NoFatal == [kind |-> "none", text |-> <<>>]

\* utils.die: abort(red(msg)), which raises SystemExit
Die(text) == [kind |-> "abort", text |-> text]

\* an exception nobody catches
Uncaught(class) == [kind |-> "exception", text |-> <<class>>]

NoPoll == [kind |-> "none", class |-> "", code |-> "", value |-> ""]

-----------------------------------------------------------------------------
(* @runs_once (ec2_connect, ec2_security_group): the wrapped function runs *)
(* on the first call only; its return value is kept and handed out to      *)
(* every later call of the process.  A kept value is <<value>>.            *)

\* no value is kept: the wrapped function runs on every call
RunsOnceNever(kept) == FALSE

RunsOnceHit(kept) == kept # <<>>

NoMemo == [ec2_connect |-> <<>>, ec2_security_group |-> <<>>]

\* ec2_connect(): a connection, or NoAuthHandlerFound without credentials
ConnectFails(kept, have_creds) == ~RunsOnceHit(kept) /\ ~have_creds

MemoAfterConnect(m) ==
    IF RunsOnceHit(m.ec2_connect) THEN m
    ELSE [m EXCEPT !.ec2_connect = <<"conn">>]

\* a rule for another port
SshRuleTelnet ==
    [ip_protocol |-> "tcp", from_port |-> 23, to_port |-> 23,
     cidr_ip |-> "0.0.0.0/0"]

\* the one rule the created group gets
SshRule ==
    [ip_protocol |-> "tcp", from_port |-> 22, to_port |-> 22,
     cidr_ip |-> "0.0.0.0/0"]

\* the body of ec2_security_group: the group of the configured name if the
\* account has one, else a new group with the ssh rule
SecurityGroupBody(grps) ==
    IF \E g \in grps : g.name = ec2_security_group_name
    THEN [value |-> <<ec2_security_group_name, "existing">>,
          groups |-> grps, lists |-> 1, creates |-> 0]
    ELSE [value |-> <<ec2_security_group_name, "created">>,
          groups |-> grps \cup {[name |-> ec2_security_group_name,
                                 rules |-> {SshRule}]},
          lists |-> 1, creates |-> 1]

\* ec2_security_group(conn) as its callers see it, through @runs_once
SecurityGroupCall(kept, grps) ==
    IF RunsOnceHit(kept)
    THEN [value |-> kept[1], groups |-> grps, lists |-> 0, creates |-> 0]
    ELSE SecurityGroupBody(grps)

-----------------------------------------------------------------------------
(* ec2_launch *)

Statuses == {"pending", "running", "shutting-down", "terminated", "stopping",
             "stopped"}

\* what inst.update() can do: return the instance's status, or raise
PollAnswers ==
    {[kind |-> "status", class |-> "", code |-> "", value |-> s] :
        s \in Statuses}
    \cup {[kind |-> "raise", class |-> "EC2ResponseError", code |-> c,
           value |-> ""] :
            c \in {"InvalidInstanceID.NotFound", "RequestLimitExceeded"}}
    \cup {[kind |-> "raise", class |-> "socket.error", code |-> "",
           value |-> ""]}

\* a bare except clause
SwallowedAll(answer) == TRUE

\* the except clause of the poll
Swallowed(answer) == answer.class = "EC2ResponseError"

\* status = inst.update(): a raise leaves status as it was
StatusAfterPoll(old, answer) ==
    IF answer.kind = "status" THEN answer.value ELSE old

\* status = 'running', before the first check
InitialStatusRunning == "running"

\* status = 'pending', before the first check
InitialStatus == "pending"

\* while status != 'running'
KeepPollingUnlessRunning(s) == s # "running"

\* while status == 'pending'
KeepPolling(s) == s = "pending"

\* if status != 'terminated'
LaunchSucceedsUnlessTerminated(s) == s # "terminated"

\* if status == 'running'
LaunchSucceeds(s) == s = "running"

DieMessage(s) == <<"Couldn't launch EC2 instance. Instance status was: ", s>>

\* names the operator may type at a name prompt ([a-zA-Z0-9_-]+)
NameInputs == {<<"prod">>, <<"web">>}

\* where ec2_launch returns to
AfterLaunch == IF task.name = "create_master" THEN "cm_tag" ELSE "cs_tag_type"

\* conn = ec2_connect(); img = conn.get_image(ami)
ElConnect ==
    /\ pc = "el_connect"
    /\ IF ConnectFails(memo.ec2_connect, creds)
       THEN /\ fatal' = Uncaught("NoAuthHandlerFound")
            /\ pc' = "crashed"
            /\ UNCHANGED memo
       ELSE /\ memo' = MemoAfterConnect(memo)
            /\ pc' = "el_secgrp"
            /\ UNCHANGED fatal
    /\ UNCHANGED <<account, groups, creds, env, script, task, gpRet, arg, menu,
                   found, inst, status, name, master, slave_name, i, is_master,
                   polls, probes, polled, calls, sg, launched, lookups>>

\* sec_grp, created = ec2_security_group(conn)
ElSecurityGroup ==
    /\ pc = "el_secgrp"
    /\ LET r == SecurityGroupCall(memo.ec2_security_group, groups) IN
        /\ groups' = r.groups
        /\ memo' = [memo EXCEPT !.ec2_security_group = <<r.value>>]
        /\ sg' = [reports |-> Append(sg.reports, r.value[2]),
                  lists |-> sg.lists + r.lists,
                  creates |-> sg.creates + r.creates]
    /\ pc' = "el_run"
    /\ UNCHANGED <<account, creds, env, script, task, gpRet, arg, menu, found,
                   inst, status, name, master, slave_name, i, is_master, polls,
                   probes, polled, calls, launched, lookups, fatal>>

\* rsrv = img.run(...); inst = rsrv.instances[0]; status = 'pending'
ElRun ==
    /\ pc = "el_run"
    /\ LET h == Len(account) + 1
           ami == IF task.name = "create_master" THEN master_ec2_ami
                  ELSE slave_ec2_ami
           type == IF task.name = "create_master" THEN master_ec2_instance_type
                   ELSE slave_ec2_instance_type
       IN /\ account' = Append(account,
                NewInstance(h, ami, type, memo.ec2_security_group[1][1]))
          /\ inst' = h
          /\ launched' = launched \cup {h}
    /\ status' = InitialStatus
    /\ polls' = 0
    /\ polled' = NoPoll
    /\ calls' = Count("run")
    /\ pc' = IF KeepPolling(InitialStatus) THEN "el_poll" ELSE "el_after"
    /\ UNCHANGED <<groups, creds, env, memo, script, task, gpRet, arg, menu,
                   found, name, master, slave_name, i, is_master, probes, sg,
                   lookups, fatal>>

\* one turn of the poll: wait(); status = inst.update(), EC2ResponseError passed over
ElPoll ==
    /\ pc = "el_poll"
    /\ \E answer \in PollAnswers :
        LET raised == answer.kind = "raise" /\ ~Swallowed(answer)
            s == StatusAfterPoll(status, answer)
        IN /\ (~raised /\ KeepPolling(s)) => polls < MaxPolls
           /\ polled' = answer
           /\ polls' = polls + 1
           /\ calls' = Count("update")
           /\ IF raised
              THEN /\ fatal' = Uncaught(answer.class)
                   /\ pc' = "crashed"
                   /\ UNCHANGED <<status, account>>
              ELSE /\ status' = s
                   /\ account' = [account EXCEPT ![inst].status = s]
                   /\ pc' = IF KeepPolling(s) THEN "el_poll" ELSE "el_after"
                   /\ UNCHANGED fatal
    /\ UNCHANGED <<groups, creds, env, memo, script, task, gpRet, arg, menu,
                   found, inst, name, master, slave_name, i, is_master, probes,
                   sg, launched, lookups>>

\* after the poll: name the running instance and return it, or die
ElAfter ==
    /\ pc = "el_after"
    /\ IF LaunchSucceeds(status)
       THEN /\ \E input \in NameInputs :
                LET nm == IF name # <<>> THEN name ELSE input IN
                account' = AddTag(account, inst, "puppet:name", nm)
            /\ calls' = Count("tag_name")
            /\ pc' = AfterLaunch
            /\ UNCHANGED fatal
       ELSE /\ fatal' = Die(DieMessage(status))
            /\ pc' = "aborted"
            /\ UNCHANGED <<account, calls>>
    /\ UNCHANGED <<groups, creds, env, memo, script, task, gpRet, arg, menu,
                   found, inst, status, name, master, slave_name, i, is_master,
                   polls, probes, polled, sg, launched, lookups>>

-----------------------------------------------------------------------------
(* get_puppetmaster *)

\* its argument: None, a str/unicode, an Instance, or a value of another type
ArgNone == [kind |-> "none", str |-> <<>>, inst |-> 0]
ArgStr(token) == [kind |-> "str", str |-> token, inst |-> 0]
ArgInstance(h) == [kind |-> "instance", str |-> <<>>, inst |-> h]
ArgOther == [kind |-> "other", str |-> <<>>, inst |-> 0]

\* 'puppet:type' in i.tags: any role passes for a master
IsMasterAnyRole(instance) == HasTag(instance.tags, "puppet:type")

\* ('puppet:type', 'puppetmaster') in i.tags.items()
IsMaster(instance) ==
    /\ HasTag(instance.tags, "puppet:type")
    /\ instance.tags["puppet:type"] = <<"puppetmaster">>

Handles(acct) == [h \in 1..Len(acct) |-> h]

\* masters = filter(..., instances), in the order the cloud lists them
Masters(acct) == SelectSeq(Handles(acct), LAMBDA h : IsMaster(acct[h]))

\* id_matches = filter(lambda i: i.id == master, masters)
IdMatches(acct, ms, token) == SelectSeq(ms, LAMBDA h : acct[h].id = token)

\* n_matches = filter(lambda i: i.tags.get('puppet:name') == master, masters)
NameMatches(acct, ms, token) ==
    SelectSeq(ms, LAMBDA h : /\ HasTag(acct[h].tags, "puppet:name")
                             /\ acct[h].tags["puppet:name"] = token)

LookupMessage(n_ids, n_names, token) ==
    Digits(n_ids) \o <<" ID matches and ">> \o Digits(n_names)
    \o <<" name matches for instance search term \"">> \o token \o <<"\"">>

\* the list call made before the isinstance check
ListsIssuedAlways(a) == 1

\* conn.get_all_instances() calls of one invocation
ListsIssued(a) == IF a.kind = "instance" THEN 0 ELSE 1

\* the context is looked at before the type of the argument
BranchContextFirst(a, working_master) ==
    IF a.kind = "instance" THEN "handle"
    ELSE IF working_master # 0 THEN "context"
    ELSE IF a.kind = "str" THEN "token"
    ELSE IF a.kind = "none" THEN "menu"
    ELSE "fall_through"

\* the branch get_puppetmaster takes
Branch(a, working_master) ==
    IF a.kind = "instance" THEN "handle"
    ELSE IF a.kind = "str" THEN "token"
    ELSE IF working_master # 0 THEN "context"
    ELSE IF a.kind = "none" THEN "menu"
    ELSE "fall_through"

\* what get_puppetmaster does up to its prompt
Resolve(a, acct, working_master) ==
    LET ms == Masters(acct)
        ids == IdMatches(acct, ms, a.str)
        names == NameMatches(acct, ms, a.str)
        branch == Branch(a, working_master)
    IN  IF branch = "handle" THEN [kind |-> "return", value |-> a.inst, text |-> <<>>]
        ELSE IF branch = "token"
        THEN IF Len(ids) = 1
             THEN [kind |-> "return", value |-> ids[1], text |-> <<>>]
             ELSE IF Len(names) = 1
             THEN [kind |-> "return", value |-> names[1], text |-> <<>>]
             ELSE [kind |-> "die", value |-> 0,
                   text |-> LookupMessage(Len(ids), Len(names), a.str)]
        ELSE IF branch = "context"
        THEN [kind |-> "return", value |-> working_master, text |-> <<>>]
        ELSE IF branch = "menu"
        THEN [kind |-> "prompt", value |-> 0, text |-> <<>>]
        ELSE [kind |-> "return", value |-> 0, text |-> <<>>]

\* get_puppetmaster(master) up to its return, its die or its prompt
GetPuppetmaster ==
    /\ pc = "gp"
    /\ LET r == Resolve(arg, account, env.working_master)
           n == ListsIssued(arg)
       IN IF n > 0 /\ ConnectFails(memo.ec2_connect, creds)
          THEN /\ fatal' = Uncaught("NoAuthHandlerFound")
               /\ pc' = "crashed"
               /\ UNCHANGED <<memo, menu, found, calls>>
          ELSE /\ memo' = IF n > 0 THEN MemoAfterConnect(memo) ELSE memo
               /\ menu' = IF r.kind = "prompt" THEN Masters(account) ELSE menu
               /\ calls' = [calls EXCEPT
                     !.list_instances = @ + n,
                     !.update = @ + (IF r.kind = "prompt"
                                     THEN Len(Masters(account)) ELSE 0)]
               /\ found' = IF r.kind = "return" THEN r.value ELSE found
               /\ fatal' = IF r.kind = "die" THEN Die(r.text) ELSE fatal
               /\ pc' = IF r.kind = "return" THEN gpRet
                        ELSE IF r.kind = "die" THEN "aborted"
                        ELSE "gp_prompt"
    /\ UNCHANGED <<account, groups, creds, env, script, task, gpRet, arg, inst,
                   status, name, master, slave_name, i, is_master, polls,
                   probes, polled, sg, launched, lookups>>

\* the characters of validate='[0-%s]$' % (len(masters) - 1), between [ and ]
ValidateClass(n_masters) ==
    <<"0", "-">> \o (IF n_masters = 0 THEN <<"-", "1">>
                     ELSE Digits(n_masters - 1))

CharCode(c) ==
    IF c = "-" THEN 45
    ELSE 47 + CHOOSE d \in 1..10 : DigitChars[d] = c

\* re: "bad character range" when the range of the class runs backwards
BadRange(class) == CharCode(class[3]) < CharCode(class[1])

\* the characters the class matches: the range, then the literals after it
ClassChars(class) ==
    {c \in {DigitChars[d] : d \in 1..10} :
        CharCode(class[1]) <= CharCode(c) /\ CharCode(c) <= CharCode(class[3])}
    \cup {class[j] : j \in 4..Len(class)}

\* prompt's validation: the whole input is one character of the class
Accepts(class, key) == Len(key) = 1 /\ key[1] \in ClassChars(class)

\* int(key) of a one-digit key
IntOf(key) == (CHOOSE d \in 1..10 : DigitChars[d] = key[1]) - 1

\* what the operator may type at the menu
KeyInputs == {<<"0">>, <<"1">>, <<"2">>, <<"1", "0">>}

\* key = prompt(..., validate=...); return masters[int(key)]
GpPrompt ==
    /\ pc = "gp_prompt"
    /\ LET class == ValidateClass(Len(menu)) IN
        IF BadRange(class)
        THEN /\ fatal' = Uncaught("re.error")
             /\ pc' = "crashed"
             /\ UNCHANGED found
        ELSE \E key \in KeyInputs :
                IF ~Accepts(class, key)
                THEN UNCHANGED <<found, pc, fatal>>
                ELSE IF IntOf(key) + 1 > Len(menu)
                THEN /\ fatal' = Uncaught("IndexError")
                     /\ pc' = "crashed"
                     /\ UNCHANGED found
                ELSE /\ found' = menu[IntOf(key) + 1]
                     /\ pc' = gpRet
                     /\ UNCHANGED fatal
    /\ UNCHANGED <<account, groups, creds, env, memo, script, task, gpRet, arg,
                   menu, inst, status, name, master, slave_name, i, is_master,
                   polls, probes, polled, calls, sg, launched, lookups>>

-----------------------------------------------------------------------------
(* wait_until_alive *)

\* run("ls") against env.host_string: it returns, or aborts with SystemExit
ProbeAnswers == {"ok", "SystemExit"}

\* no except clause: the abort of a failed probe is not caught
ProbeNeverRetries(answer) == FALSE

\* except SystemExit: wait()
ProbeRetries(answer) == answer = "SystemExit"

AfterAlive == IF task.name = "create_master" THEN "cm_install" ELSE "is_start"

WaProbe ==
    /\ pc = "wa_probe"
    /\ \E answer \in ProbeAnswers :
        IF answer = "ok"
        THEN /\ account' = Executed(account, env.host_string, "ls")
             /\ pc' = AfterAlive
             /\ UNCHANGED <<probes, fatal>>
        ELSE IF ProbeRetries(answer)
        THEN /\ probes < MaxProbes
             /\ probes' = probes + 1
             /\ UNCHANGED <<account, pc, fatal>>
        ELSE /\ fatal' = Die(<<"run() encountered an error">>)
             /\ pc' = "aborted"
             /\ UNCHANGED <<account, probes>>
    /\ UNCHANGED <<groups, creds, env, memo, script, task, gpRet, arg, menu,
                   found, inst, status, name, master, slave_name, i, is_master,
                   polls, polled, calls, sg, launched, lookups>>

-----------------------------------------------------------------------------
(* The tasks *)

CreateMasterTask == [name |-> "create_master", num |-> 0, master |-> ArgNone]
CreateSlavesTask(num, m) == [name |-> "create_slaves", num |-> num, master |-> m]
NoTask == [name |-> "", num |-> 0, master |-> ArgNone]

InstallMasterCmd == "aptitude install -q -y puppetmaster"
InstallSlaveCmd == "aptitude install -q -y puppet"

\* sudo(...): it returns, or aborts
SudoAnswers == {"ok", "SystemExit"}

\* fab create_master: up to the call of ec2_launch
CreateMaster ==
    /\ pc \in {"idle", "done"}
    /\ script # <<>>
    /\ Head(script).name = "create_master"
    /\ task' = Head(script)
    /\ script' = Tail(script)
    /\ calls' = NoCalls
    /\ name' = <<>>
    /\ pc' = "el_connect"
    /\ UNCHANGED <<account, groups, creds, env, memo, gpRet, arg, menu, found,
                   inst, status, master, slave_name, i, is_master, polls,
                   probes, polled, sg, launched, lookups, fatal>>

\* inst.add_tag("puppet:type", "puppetmaster"); env.host_string = ...;
\* wait_until_alive() begins
CmTag ==
    /\ pc = "cm_tag"
    /\ account' = AddTag(account, inst, "puppet:type", <<"puppetmaster">>)
    /\ env' = [env EXCEPT !.host_string = inst]
    /\ calls' = [calls EXCEPT !.tag_type = @ + 1, !.wait_alive = @ + 1]
    /\ probes' = 0
    /\ pc' = "wa_probe"
    /\ UNCHANGED <<groups, creds, memo, script, task, gpRet, arg, menu, found,
                   inst, status, name, master, slave_name, i, is_master, polls,
                   polled, sg, launched, lookups, fatal>>

\* puppet.install_master()
CmInstall ==
    /\ pc = "cm_install"
    /\ calls' = Count("install")
    /\ \E answer \in SudoAnswers :
        IF answer = "ok"
        THEN /\ account' = Executed(account, env.host_string, InstallMasterCmd)
             /\ pc' = "cm_done"
             /\ UNCHANGED fatal
        ELSE /\ fatal' = Die(<<"sudo() encountered an error">>)
             /\ pc' = "aborted"
             /\ UNCHANGED account
    /\ UNCHANGED <<groups, creds, env, memo, script, task, gpRet, arg, menu,
                   found, inst, status, name, master, slave_name, i, is_master,
                   polls, probes, polled, sg, launched, lookups>>

\* yay(...); env.working_master = inst
CmDone ==
    /\ pc = "cm_done"
    /\ env' = [env EXCEPT !.working_master = inst]
    /\ pc' = "done"
    /\ UNCHANGED <<account, groups, creds, memo, script, task, gpRet, arg, menu,
                   found, inst, status, name, master, slave_name, i, is_master,
                   polls, probes, polled, calls, sg, launched, lookups, fatal>>

\* fab create_slaves:num,master: up to master = get_puppetmaster(master)
CreateSlaves ==
    /\ pc \in {"idle", "done"}
    /\ script # <<>>
    /\ Head(script).name = "create_slaves"
    /\ task' = Head(script)
    /\ script' = Tail(script)
    /\ calls' = NoCalls
    /\ arg' = Head(script).master
    /\ gpRet' = "cs_prompt"
    /\ pc' = "gp"
    /\ UNCHANGED <<account, groups, creds, env, memo, menu, found, inst, status,
                   name, master, slave_name, i, is_master, polls, probes,
                   polled, sg, launched, lookups, fatal>>

\* what the operator may type at the slave-name prompt (<<>>: just Enter)
SlaveNameInputs == {<<>>, <<"web">>}

\* range(1, int(num)+2): one slave too many
SlaveRangeOneMore(num) == [k \in 1..(num + 1) |-> k]

\* range(1, int(num)+1)
SlaveRange(num) == [k \in 1..num |-> k]

\* the tag keys of a slave
\* a misspelt key
RoleKeyTypo == "puppet:role"
RoleKey == "puppet:type"
\* a misspelt key
MasterIdKeyTypo == "puppet:master"
MasterIdKey == "puppet:master_id"

\* the list of an earlier run is kept
ResetSlavesKept(slaves) == slaves

\* env.working_slaves = []
ResetSlaves(slaves) == <<>>

\* slave_name = prompt(..., default="%s-slave" % master.tags['puppet:name']);
\* env.working_slaves = []
CsPrompt ==
    /\ pc = "cs_prompt"
    /\ master' = found
    /\ IF found = 0
       THEN /\ fatal' = Uncaught("AttributeError")
            /\ pc' = "crashed"
            /\ UNCHANGED <<slave_name, env, i>>
       ELSE IF ~HasTag(account[found].tags, "puppet:name")
       THEN /\ fatal' = Uncaught("KeyError")
            /\ pc' = "crashed"
            /\ UNCHANGED <<slave_name, env, i>>
       ELSE /\ \E input \in SlaveNameInputs :
                slave_name' =
                    IF input = <<>>
                    THEN account[found].tags["puppet:name"] \o <<"-slave">>
                    ELSE input
            /\ env' = [env EXCEPT !.working_slaves = ResetSlaves(@)]
            /\ i' = 1
            /\ pc' = "cs_loop"
            /\ UNCHANGED fatal
    /\ UNCHANGED <<account, groups, creds, memo, script, task, gpRet, arg, menu,
                   found, inst, status, name, is_master, polls, probes, polled,
                   calls, sg, launched, lookups>>

\* the head of the for loop: the next slave's ec2_launch, or the closing yay
CsLoop ==
    /\ pc = "cs_loop"
    /\ IF i <= Len(SlaveRange(task.num))
       THEN /\ name' = slave_name
            /\ pc' = "el_connect"
       ELSE /\ pc' = "done"
            /\ UNCHANGED name
    /\ UNCHANGED <<account, groups, creds, env, memo, script, task, gpRet, arg,
                   menu, found, inst, status, master, slave_name, i, is_master,
                   polls, probes, polled, calls, sg, launched, lookups, fatal>>

\* inst.add_tag("puppet:type", "puppetslave")
CsTagType ==
    /\ pc = "cs_tag_type"
    /\ account' = AddTag(account, inst, RoleKey, <<"puppetslave">>)
    /\ calls' = Count("tag_type")
    /\ pc' = "cs_tag_master"
    /\ UNCHANGED <<groups, creds, env, memo, script, task, gpRet, arg, menu,
                   found, inst, status, name, master, slave_name, i, is_master,
                   polls, probes, polled, sg, launched, lookups, fatal>>

\* inst.add_tag("puppet:master_id", master.id); env.host_string = ...;
\* wait_until_alive() begins
CsTagMaster ==
    /\ pc = "cs_tag_master"
    /\ account' = AddTag(account, inst, MasterIdKey, account[master].id)
    /\ env' = [env EXCEPT !.host_string = inst]
    /\ calls' = [calls EXCEPT !.tag_master = @ + 1, !.wait_alive = @ + 1]
    /\ probes' = 0
    /\ pc' = "wa_probe"
    /\ UNCHANGED <<groups, creds, memo, script, task, gpRet, arg, menu, found,
                   inst, status, name, master, slave_name, i, is_master, polls,
                   polled, sg, launched, lookups, fatal>>

\* puppet.install_slave(): up to master = get_puppetmaster(master)
IsStart ==
    /\ pc = "is_start"
    /\ arg' = ArgNone
    /\ gpRet' = "is_sudo"
    /\ pc' = "gp"
    /\ UNCHANGED <<account, groups, creds, env, memo, script, task, menu, found,
                   inst, status, name, master, slave_name, i, is_master, polls,
                   probes, polled, calls, sg, launched, lookups, fatal>>

\* puppet.install_slave(): sudo("aptitude install -q -y puppet")
IsSudo ==
    /\ pc = "is_sudo"
    /\ is_master' = found
    /\ calls' = Count("install")
    /\ \E answer \in SudoAnswers :
        IF answer = "ok"
        THEN /\ account' = Executed(account, env.host_string, InstallSlaveCmd)
             /\ pc' = "cs_append"
             /\ UNCHANGED fatal
        ELSE /\ fatal' = Die(<<"sudo() encountered an error">>)
             /\ pc' = "aborted"
             /\ UNCHANGED account
    /\ UNCHANGED <<groups, creds, env, memo, script, task, gpRet, arg, menu,
                   found, inst, status, name, master, slave_name, i, polls,
                   probes, polled, sg, launched, lookups>>

\* env.working_slaves.append(inst), and on to the next i
CsAppend ==
    /\ pc = "cs_append"
    /\ env' = [env EXCEPT !.working_slaves = Append(@, inst)]
    /\ i' = i + 1
    /\ pc' = "cs_loop"
    /\ UNCHANGED <<account, groups, creds, memo, script, task, gpRet, arg, menu,
                   found, inst, status, name, master, slave_name, is_master,
                   polls, probes, polled, calls, sg, launched, lookups, fatal>>

-----------------------------------------------------------------------------
(* The fab process *)

\* an instance of the account that the process did not launch
Existing(k, type, nm) ==
    [id |-> InstanceId(k), status |-> "running",
     tags |-> [key \in (IF type = <<>> THEN {} ELSE {"puppet:type"})
                       \cup (IF nm = <<>> THEN {} ELSE {"puppet:name"}) |->
                 IF key = "puppet:type" THEN type ELSE nm],
     cmds |-> <<>>, ami |-> master_ec2_ami,
     instance_type |-> master_ec2_instance_type,
     key_name |-> ec2_key_pair_name,
     security_groups |-> {ec2_security_group_name}]

PuppetGroup == [name |-> ec2_security_group_name, rules |-> {SshRule}]

\* a group of the configured name that somebody made without any rule
BareGroup == [name |-> ec2_security_group_name, rules |-> {}]

\* the security groups the account may hold when the process starts: the
\* code looks at the names of the groups only
StartGroups == {{}, {PuppetGroup}, {BareGroup}}

\* the accounts a provisioning run starts from: empty, or one master,
\* named or not
StartAccounts ==
    {<<>>, <<Existing(1, <<"puppetmaster">>, <<"prod">>)>>,
     <<Existing(1, <<"puppetmaster">>, <<>>)>>}

\* the master argument of create_slaves on the command line
MasterArgs == {ArgNone, ArgStr(<<"prod">>), ArgStr(InstanceId(1))}

\* the command lines
Scripts ==
    {<<CreateMasterTask>>}
    \cup {<<CreateSlavesTask(n, m)>> : n \in 0..MaxNum, m \in MasterArgs}
    \cup {<<CreateMasterTask, CreateSlavesTask(n, m)>> :
            n \in 0..MaxNum, m \in MasterArgs}
    \cup {<<CreateSlavesTask(1, ArgStr(<<"prod">>)),
            CreateSlavesTask(n, ArgStr(<<"prod">>))>> : n \in 0..1}

Init ==
    /\ account \in StartAccounts
    /\ groups \in StartGroups
    /\ creds \in BOOLEAN
    /\ env = [working_master |-> 0, working_slaves |-> <<>>, host_string |-> 0]
    /\ memo = NoMemo
    /\ script \in Scripts
    /\ task = NoTask
    /\ pc = "idle"
    /\ gpRet = ""
    /\ arg = ArgNone
    /\ menu = <<>>
    /\ found = 0
    /\ inst = 0
    /\ status = ""
    /\ name = <<>>
    /\ master = 0
    /\ slave_name = <<>>
    /\ i = 0
    /\ is_master = 0
    /\ polls = 0
    /\ probes = 0
    /\ polled = NoPoll
    /\ calls = NoCalls
    /\ sg = [reports |-> <<>>, lists |-> 0, creates |-> 0]
    /\ launched = {}
    /\ lookups = 0
    /\ fatal = NoFatal

Next ==
    \/ CreateMaster
    \/ CreateSlaves
    \/ ElConnect
    \/ ElSecurityGroup
    \/ ElRun
    \/ ElPoll
    \/ ElAfter
    \/ GetPuppetmaster
    \/ GpPrompt
    \/ WaProbe
    \/ CmTag
    \/ CmInstall
    \/ CmDone
    \/ CsPrompt
    \/ CsLoop
    \/ CsTagType
    \/ CsTagMaster
    \/ IsStart
    \/ IsSudo
    \/ CsAppend

Spec == Init /\ [][Next]_vars

-----------------------------------------------------------------------------
(* A lookup session: a process that calls get_puppetmaster, with any of    *)
(* its argument forms, over any small account.                             *)

LookupTypes == {<<>>, <<"puppetmaster">>, <<"puppetslave">>}
LookupNames == {<<>>, <<"prod">>, InstanceId(1)}
LookupTokens == {<<"prod">>, <<"web">>, InstanceId(1), InstanceId(2)}

LookupAccounts ==
    UNION {{[h \in 1..n |-> Existing(h, types[h], names[h])] :
                types \in [1..n -> LookupTypes], names \in [1..n -> LookupNames]} :
            n \in 0..MaxPre}

LookupArgs(acct) ==
    {ArgNone, ArgOther}
    \cup {ArgStr(t) : t \in LookupTokens}
    \cup {ArgInstance(h) : h \in 1..Len(acct)}

\* a caller invokes get_puppetmaster(a)
LookupCall ==
    /\ pc \in {"lookup", "lookup_done"}
    /\ lookups < MaxLookups
    /\ lookups' = lookups + 1
    /\ \E a \in LookupArgs(account) : arg' = a
    /\ gpRet' = "lookup_done"
    /\ calls' = NoCalls
    /\ found' = 0
    /\ pc' = "gp"
    /\ UNCHANGED <<account, groups, creds, env, memo, script, task, menu, inst,
                   status, name, master, slave_name, i, is_master, polls,
                   probes, polled, sg, launched, fatal>>

InitLookup ==
    /\ account \in LookupAccounts
    /\ groups = {PuppetGroup}
    /\ creds = TRUE
    /\ \E wm \in 0..Len(account) :
        env = [working_master |-> wm, working_slaves |-> <<>>, host_string |-> 0]
    /\ memo = NoMemo
    /\ script = <<>>
    /\ task = NoTask
    /\ pc = "lookup"
    /\ gpRet = ""
    /\ arg = ArgNone
    /\ menu = <<>>
    /\ found = 0
    /\ inst = 0
    /\ status = ""
    /\ name = <<>>
    /\ master = 0
    /\ slave_name = <<>>
    /\ i = 0
    /\ is_master = 0
    /\ polls = 0
    /\ probes = 0
    /\ polled = NoPoll
    /\ calls = NoCalls
    /\ sg = [reports |-> <<>>, lists |-> 0, creates |-> 0]
    /\ launched = {}
    /\ lookups = 0
    /\ fatal = NoFatal

NextLookup ==
    \/ LookupCall
    \/ GetPuppetmaster
    \/ GpPrompt

SpecLookup == InitLookup /\ [][NextLookup]_vars

-----------------------------------------------------------------------------
(* A menu session: a lookup session over an account of masters only, with  *)
(* no working master, so that get_puppetmaster(None) shows its menu.       *)

MaxMenu == 11    \* the largest number of masters in the account

MenuAccount(m) == [h \in 1..m |-> Existing(h, <<"puppetmaster">>, <<"prod">>)]

InitMenu ==
    /\ account \in {MenuAccount(m) : m \in 0..MaxMenu}
    /\ groups = {PuppetGroup}
    /\ creds = TRUE
    /\ env = [working_master |-> 0, working_slaves |-> <<>>, host_string |-> 0]
    /\ memo = NoMemo
    /\ script = <<>>
    /\ task = NoTask
    /\ pc = "lookup"
    /\ gpRet = ""
    /\ arg = ArgNone
    /\ menu = <<>>
    /\ found = 0
    /\ inst = 0
    /\ status = ""
    /\ name = <<>>
    /\ master = 0
    /\ slave_name = <<>>
    /\ i = 0
    /\ is_master = 0
    /\ polls = 0
    /\ probes = 0
    /\ polled = NoPoll
    /\ calls = NoCalls
    /\ sg = [reports |-> <<>>, lists |-> 0, creates |-> 0]
    /\ launched = {}
    /\ lookups = 0
    /\ fatal = NoFatal

SpecMenu == InitMenu /\ [][NextLookup]_vars

-----------------------------------------------------------------------------
(* A create_master run whose two loops are not cut short: the poll of      *)
(* ec2_launch and the probe of wait_until_alive take as many turns as the  *)
(* cloud and the host make them take.  The counters polls and probes count *)
(* up to their bound plus one and keep only their parity beyond it.        *)

TurnsAfter(n, bound) == IF n <= bound THEN n + 1 ELSE bound

\* one turn of the poll: wait(); status = inst.update(), EC2ResponseError passed over
ElPollLive ==
    /\ pc = "el_poll"
    /\ \E answer \in PollAnswers :
        LET raised == answer.kind = "raise" /\ ~Swallowed(answer)
            s == StatusAfterPoll(status, answer)
        IN /\ polled' = answer
           /\ polls' = TurnsAfter(polls, MaxPolls)
           /\ calls' = [calls EXCEPT !.update = TurnsAfter(@, MaxPolls)]
           /\ IF raised
              THEN /\ fatal' = Uncaught(answer.class)
                   /\ pc' = "crashed"
                   /\ UNCHANGED <<status, account>>
              ELSE /\ status' = s
                   /\ account' = [account EXCEPT ![inst].status = s]
                   /\ pc' = IF KeepPolling(s) THEN "el_poll" ELSE "el_after"
                   /\ UNCHANGED fatal
    /\ UNCHANGED <<groups, creds, env, memo, script, task, gpRet, arg, menu,
                   found, inst, name, master, slave_name, i, is_master, probes,
                   sg, launched, lookups>>

\* one turn of wait_until_alive: run("ls"), SystemExit passed over with a wait()
WaProbeLive ==
    /\ pc = "wa_probe"
    /\ \E answer \in ProbeAnswers :
        IF answer = "ok"
        THEN /\ account' = Executed(account, env.host_string, "ls")
             /\ pc' = AfterAlive
             /\ UNCHANGED <<probes, fatal>>
        ELSE IF ProbeRetries(answer)
        THEN /\ probes' = TurnsAfter(probes, MaxProbes)
             /\ UNCHANGED <<account, pc, fatal>>
        ELSE /\ fatal' = Die(<<"run() encountered an error">>)
             /\ pc' = "aborted"
             /\ UNCHANGED <<account, probes>>
    /\ UNCHANGED <<groups, creds, env, memo, script, task, gpRet, arg, menu,
                   found, inst, status, name, master, slave_name, i, is_master,
                   polls, polled, calls, sg, launched, lookups>>

\* fab create_master
InitLive == Init /\ script = <<CreateMasterTask>>

NextLive ==
    \/ CreateMaster
    \/ ElConnect
    \/ ElSecurityGroup
    \/ ElRun
    \/ ElPollLive
    \/ ElAfter
    \/ CmTag
    \/ WaProbeLive
    \/ CmInstall
    \/ CmDone

\* the process is never held up: it takes its next step whenever it has one;
\* what the cloud and the host answer is left open
SpecLive == InitLive /\ [][NextLive]_vars /\ WF_vars(NextLive)

-----------------------------------------------------------------------------
(* Properties *)

\* the instances the running task has launched so far
Batch == (Len(account) - calls.run + 1)..Len(account)

InCreateSlaves == task.name = "create_slaves"
InCreateMaster == task.name = "create_master"

\* everything create_slaves does for one slave has been done for h
SlaveComplete(h) ==
    /\ account[h].status = "running"
    /\ DOMAIN account[h].tags = {"puppet:name", "puppet:type", "puppet:master_id"}
    /\ account[h].tags["puppet:name"] = slave_name
    /\ account[h].tags["puppet:type"] = <<"puppetslave">>
    /\ account[h].tags["puppet:master_id"] = account[master].id
    /\ account[h].cmds = <<"ls", InstallSlaveCmd>>

\* the steps done for h so far are an initial part of
\* launch, poll, name tag, role tag, back-reference tag, readiness, install
SlaveInOrder(h) ==
    /\ HasTag(account[h].tags, "puppet:name") => account[h].status = "running"
    /\ HasTag(account[h].tags, "puppet:type") => HasTag(account[h].tags, "puppet:name")
    /\ HasTag(account[h].tags, "puppet:master_id") =>
            HasTag(account[h].tags, "puppet:type")
    /\ account[h].cmds # <<>> => HasTag(account[h].tags, "puppet:master_id")
    /\ account[h].cmds \in {<<>>, <<"ls">>, <<"ls", InstallSlaveCmd>>}

\* C1: a create_slaves run of count n >= 1 that reaches its end has launched
\* exactly n instances, written n role tags and n back-reference tags to the
\* master's id, made n readiness waits and issued n install commands; and at
\* every moment of the run all slaves but the latest are complete, while the
\* latest has its steps done in order.
C1_SlavesInSequence ==
    InCreateSlaves =>
        /\ \A h \in Batch :
            /\ h # Len(account) => SlaveComplete(h)
            /\ SlaveInOrder(h)
        /\ (pc = "done" /\ task.num >= 1) =>
            /\ calls.run = task.num
            /\ calls.tag_type = task.num
            /\ calls.tag_master = task.num
            /\ calls.wait_alive = task.num
            /\ calls.install = task.num
            /\ Cardinality(Batch) = task.num
            /\ \A h \in Batch : SlaveComplete(h)

C1_Witness ==
    /\ InCreateSlaves
    /\ pc = "done"
    /\ task.num = MaxNum
    /\ calls.run = MaxNum
    /\ \E h \in Batch : h # Len(account)

\* C2: a status check that returns 'pending' is followed by another check;
\* after the poll a 'running' instance gets its name tag and is returned, and
\* any other status ends the process by die() with the status in the message
\* and no tag on the instance.
C2_PollOutcomes ==
    [][/\ (pc = "el_poll" /\ polled'.kind = "status") =>
            /\ status' = polled'.value
            /\ polled'.value = "pending" => pc' = "el_poll"
            /\ polled'.value # "pending" => pc' = "el_after"
       /\ (pc = "el_after" /\ status = "running") =>
            /\ pc' = AfterLaunch
            /\ fatal' = NoFatal
            /\ inst' = inst
            /\ DOMAIN account'[inst].tags = {"puppet:name"}
       /\ (pc = "el_after" /\ status # "running") =>
            /\ pc' = "aborted"
            /\ fatal'.kind = "abort"
            /\ Contains(fatal'.text, status)
            /\ account'[inst].tags = EmptyTags
      ]_vars

C2_Witness ==
    /\ pc = "aborted"
    /\ polls = MaxPolls + 1
    /\ polled.kind = "status"
    /\ polled.value = "stopped"
    /\ Contains(fatal.text, "stopped")

\* C3: a status check that raises the not-found EC2ResponseError leaves the
\* poll running with the status still pending, and a status check that raises
\* an error of another class ends ec2_launch with that error.
C3_PollErrors ==
    [][ /\ (/\ pc = "el_poll"
            /\ polled'.kind = "raise"
            /\ polled'.class = "EC2ResponseError"
            /\ polled'.code = "InvalidInstanceID.NotFound") =>
                /\ pc' = "el_poll"
                /\ status' = "pending"
                /\ fatal' = NoFatal
        /\ (/\ pc = "el_poll"
            /\ polled'.kind = "raise"
            /\ polled'.class # "EC2ResponseError") =>
                /\ pc' = "crashed"
                /\ fatal' = Uncaught(polled'.class)
      ]_vars

C3_Witness ==
    /\ pc = "crashed"
    /\ polls = MaxPolls + 1
    /\ polled.kind = "raise"
    /\ polled.class = "socket.error"
    /\ fatal = Uncaught("socket.error")

\* the role=master instances of the account, and those a token matches
MasterSet == {h \in 1..Len(account) :
                /\ "puppet:type" \in DOMAIN account[h].tags
                /\ account[h].tags["puppet:type"] = <<"puppetmaster">>}
IdSet(token) == {h \in MasterSet : account[h].id = token}
NameSet(token) == {h \in MasterSet :
                    /\ "puppet:name" \in DOMAIN account[h].tags
                    /\ account[h].tags["puppet:name"] = token}

\* an invocation of a lookup session has ended: returned, died, or crashed
LookupEnded == pc \in {"lookup_done", "aborted", "crashed"}

\* C4: with a string token, get_puppetmaster returns the one role=master
\* instance whose id is the token; failing that, the one role=master instance
\* whose puppet:name is the token; failing that, it dies with a message
\* giving the number of ID matches and of name matches.  What it returns is
\* tagged role=master.
C4_TokenLookup ==
    (LookupEnded /\ arg.kind = "str") =>
        LET ids == IdSet(arg.str)
            names == NameSet(arg.str)
        IN  /\ Cardinality(ids) = 1 => (pc = "lookup_done" /\ found \in ids)
            /\ (Cardinality(ids) # 1 /\ Cardinality(names) = 1) =>
                    (pc = "lookup_done" /\ found \in names)
            /\ (Cardinality(ids) # 1 /\ Cardinality(names) # 1) =>
                    /\ pc = "aborted"
                    /\ fatal.kind = "abort"
                    /\ SubSeq(fatal.text, 1, 4) =
                        <<DigitChars[Cardinality(ids) + 1], " ID matches and ",
                          DigitChars[Cardinality(names) + 1],
                          " name matches for instance search term \"">>
            /\ pc = "lookup_done" => found \in MasterSet

C4_Witness ==
    /\ pc = "aborted"
    /\ arg.kind = "str"
    /\ Cardinality(IdSet(arg.str)) = 0
    /\ Cardinality(NameSet(arg.str)) = 2
    /\ SubSeq(fatal.text, 1, 3) = <<"0", " ID matches and ", "2">>

\* C5 as claimed: when the first call of ec2_security_group created the
\* group, there was one create call and the second call reports "existing".
C5_SecondCallExisting ==
    (Len(sg.reports) >= 2 /\ sg.reports[1] = "created") =>
        /\ sg.creates = 1
        /\ sg.reports[2] = "existing"

\* C5: when the first call of ec2_security_group created the group, the
\* process makes one create call and one list call whatever the number of
\* calls, and every later call reports what the first reported: "created".
C5_SecondCallMemoised ==
    (Len(sg.reports) >= 1 /\ sg.reports[1] = "created") =>
        /\ sg.creates = 1
        /\ sg.lists = 1
        /\ \A k \in 1..Len(sg.reports) : sg.reports[k] = "created"
        /\ Cardinality({g \in groups : g.name = ec2_security_group_name}) = 1

C5_Witness ==
    /\ Len(sg.reports) >= 2
    /\ sg.reports[1] = "created"
    /\ sg.reports[2] = "created"
    /\ sg.creates = 1

\* the process is in install_slave (its lookup of the master included)
InInstallSlave ==
    \/ pc \in {"is_start", "is_sudo"}
    \/ pc \in {"gp", "gp_prompt"} /\ gpRet = "is_sudo"

\* C6: the install command goes to the instance the readiness probe reached,
\* and only after a probe succeeded; a failed probe is followed by another
\* probe, never by an abort or by the install; a failed install ends the
\* process and is not issued again.
C6_ProbeThenInstall ==
    /\ [](/\ \A h \in 1..Len(account) :
                account[h].cmds # <<>> => Head(account[h].cmds) = "ls"
          /\ (pc = "cm_install" \/ InInstallSlave) =>
                /\ env.host_string = inst
                /\ account[inst].cmds = <<"ls">>
          /\ calls.install <= calls.wait_alive)
    /\ [][/\ pc = "wa_probe" =>
                /\ pc' \in {"wa_probe", AfterAlive}
                /\ fatal' = NoFatal
                /\ pc' = "wa_probe" =>
                        (account' = account /\ probes' = probes + 1)
                /\ pc' = AfterAlive =>
                        account'[env.host_string].cmds = <<"ls">>
          /\ (pc \in {"cm_install", "is_sudo"} /\ account' = account) =>
                /\ pc' = "aborted"
                /\ fatal'.kind = "abort"
                /\ calls'.install = calls.install + 1
          /\ pc = "aborted" => (pc' = "aborted" /\ calls' = calls)
         ]_vars

C6_Witness ==
    /\ pc = "aborted"
    /\ InCreateSlaves
    /\ calls.install = 2
    /\ calls.wait_alive = 2
    /\ probes = MaxProbes
    /\ account[env.host_string].cmds = <<"ls">>

\* C7: a create_master run whose instance is reported running by the first
\* status check ends having made one run-instance call, one status check and
\* one write of the name tag, with the install-master command completed on
\* the instance; and the working master is the new instance only once that
\* command has completed.
C7_CreateMasterEndToEnd ==
    InCreateMaster =>
        /\ (pc = "done" /\ polls <= 1) =>
            /\ calls.run = 1
            /\ calls.update = 1
            /\ calls.tag_name = 1
            /\ calls.install = 1
            /\ account[inst].status = "running"
            /\ account[inst].cmds = <<"ls", InstallMasterCmd>>
            /\ env.working_master = inst
        /\ \A h \in Batch :
            env.working_master = h =>
                /\ pc = "done"
                /\ account[h].cmds = <<"ls", InstallMasterCmd>>

C7_Witness ==
    /\ InCreateMaster
    /\ pc = "done"
    /\ polls = 1
    /\ calls.update = 1
    /\ env.working_master = inst

\* the lookup step of the invocation has been taken
LookupSettled == LookupEnded \/ pc = "gp_prompt"

\* C8: get_puppetmaster returns an instance handle as it is; resolves a
\* string token among the role=master instances, context or no context;
\* returns the context when there is no token; and goes to the menu of all
\* role=master instances when there is neither.  With these forms a return
\* is the return of an instance.
C8_InputForms ==
    /\ (LookupSettled /\ arg.kind = "instance") =>
            (pc = "lookup_done" /\ found = arg.inst)
    /\ (LookupSettled /\ arg.kind = "str") =>
            /\ pc \in {"lookup_done", "aborted"}
            /\ pc = "lookup_done" => found \in IdSet(arg.str) \cup NameSet(arg.str)
            /\ pc = "aborted" => fatal.kind = "abort"
    /\ (LookupSettled /\ arg.kind = "none" /\ env.working_master # 0) =>
            (pc = "lookup_done" /\ found = env.working_master)
    /\ (LookupSettled /\ arg.kind = "none" /\ env.working_master = 0) =>
            /\ pc \in {"gp_prompt", "lookup_done", "crashed"}
            /\ {menu[k] : k \in 1..Len(menu)} = MasterSet
            /\ Len(menu) = Cardinality(MasterSet)
            /\ calls.update = Len(menu)
            /\ pc = "lookup_done" => found \in MasterSet
            /\ pc = "crashed" => fatal.kind = "exception"
    /\ (pc = "lookup_done" /\ arg.kind # "other") => found \in 1..Len(account)

C8_Witness ==
    /\ pc = "lookup_done"
    /\ arg.kind = "str"
    /\ env.working_master # 0
    /\ found # env.working_master
    /\ env.working_master \in MasterSet

\* C9 as claimed: every invocation of get_puppetmaster issues one
\* list-all-instances call.
C9_OneListPerInvocation ==
    LookupSettled => calls.list_instances = 1

\* C9: an invocation of get_puppetmaster with an instance handle issues no
\* list-all-instances call; every other invocation issues one, the later
\* invocations of the process as well as the first.
C9_OneListUnlessHandle ==
    LookupSettled =>
        calls.list_instances = (IF arg.kind = "instance" THEN 0 ELSE 1)

C9_Witness ==
    /\ pc = "lookup_done"
    /\ lookups = MaxLookups
    /\ arg.kind = "none"
    /\ calls.list_instances = 1

IsSlave(h) ==
    /\ "puppet:type" \in DOMAIN account[h].tags
    /\ account[h].tags["puppet:type"] = <<"puppetslave">>

HasBackReference(h) == "puppet:master_id" \in DOMAIN account[h].tags

\* C10 as claimed: every instance with the role tag puppetslave has a
\* back-reference tag.
C10_SlaveHasBackReference ==
    \A h \in 1..Len(account) : IsSlave(h) => HasBackReference(h)

\* C10: every instance with the role tag puppetslave has one back-reference
\* tag, written once and holding the master's id, except the instance of the
\* running iteration between its role-tag write and its back-reference write.
C10_BackReferenceAfterWrite ==
    /\ \A h \in 1..Len(account) :
        IsSlave(h) => \/ HasBackReference(h)
                      \/ pc = "cs_tag_master" /\ h = inst
    /\ InCreateSlaves =>
        /\ Cardinality({h \in Batch : HasBackReference(h)}) = calls.tag_master
        /\ \A h \in Batch :
            HasBackReference(h) =>
                account[h].tags["puppet:master_id"] = account[master].id

C10_Witness ==
    /\ InCreateSlaves
    /\ pc = "done"
    /\ task.num = MaxNum
    /\ \A h \in Batch : IsSlave(h) /\ HasBackReference(h)

\* the process is past the tag writes of inst: in the readiness wait, in the
\* install, or between the install and the next launch
PastTagWrites ==
    \/ pc \in {"wa_probe", "cm_install", "cm_done", "cs_append"}
    \/ InInstallSlave

\* C11 as claimed: the tags of an instance are updated after the install
\* command has completed on it.
C11_TagAfterInstall ==
    \A h \in launched :
        HasTag(account[h].tags, "puppet:type") => Len(account[h].cmds) = 2

\* C11: the launcher (which writes the name tag) comes first, then the role
\* tag and for a slave the back-reference tag, then the readiness wait, then
\* the install command: an instance that a probe or an install has reached
\* carries all its tags, and no tag of it is written from the readiness wait
\* on.
C11_TagsBeforeReadiness ==
    /\ [](\A h \in launched :
            /\ account[h].cmds \in {<<>>, <<"ls">>, <<"ls", InstallMasterCmd>>,
                                    <<"ls", InstallSlaveCmd>>}
            /\ account[h].cmds # <<>> =>
                /\ account[h].status = "running"
                /\ HasTag(account[h].tags, "puppet:name")
                /\ HasTag(account[h].tags, "puppet:type")
                /\ IsSlave(h) <=> HasBackReference(h)
                /\ IsSlave(h) => account[h].cmds # <<"ls", InstallMasterCmd>>)
    /\ [][/\ PastTagWrites => account'[inst].tags = account[inst].tags
          /\ \A h \in 1..Len(account) :
                account[h].cmds # <<>> => account'[h].tags = account[h].tags
         ]_vars

C11_Witness ==
    /\ InCreateMaster
    /\ pc = "cm_done"
    /\ DOMAIN account[inst].tags = {"puppet:name", "puppet:type"}
    /\ account[inst].cmds = <<"ls", InstallMasterCmd>>

\* the process has ended by a die or by an exception nobody caught
Ended == pc \in {"aborted", "crashed"}

\* C12: in create_slaves an instance whose launch ends in a status other than
\* running, or whose install fails, ends the process: the failing instance is
\* the last one launched, every instance of the batch before it is complete,
\* nothing happens after the failure, and no step of the run removes an
\* instance or a tag or changes an id.
C12_FailureEndsBatch ==
    /\ [](InCreateSlaves =>
            /\ \A h \in Batch :
                account[h].status \notin {"pending", "running"} =>
                    /\ h = Len(account)
                    /\ pc \in {"el_after", "aborted"}
            /\ Ended =>
                /\ calls.run <= task.num
                /\ \A h \in Batch : h # Len(account) => SlaveComplete(h)
                /\ Len(env.working_slaves) \in {calls.run - 1, calls.run})
    /\ [][/\ (InCreateSlaves /\ pc = "el_after" /\ status # "running") =>
                (pc' = "aborted" /\ fatal'.kind = "abort")
          /\ (InCreateSlaves /\ pc = "is_sudo" /\ account' = account) =>
                (pc' = "aborted" /\ fatal'.kind = "abort")
          /\ Ended => (pc' = pc /\ calls' = calls /\ account' = account)
          /\ Len(account') >= Len(account)
          /\ \A h \in 1..Len(account) :
                /\ account'[h].id = account[h].id
                /\ \A k \in DOMAIN account[h].tags :
                    /\ k \in DOMAIN account'[h].tags
                    /\ account'[h].tags[k] = account[h].tags[k]
         ]_vars

C12_Witness ==
    /\ InCreateSlaves
    /\ pc = "aborted"
    /\ task.num = MaxNum
    /\ calls.run = 2
    /\ account[Len(account)].status = "terminated"
    /\ account[Len(account)].tags = EmptyTags
    /\ SlaveComplete(Len(account) - 1)
    /\ env.working_slaves = <<Len(account) - 1>>

RECURSIVE KeyNumber(_)
\* the number that the digits of key write
KeyNumber(key) ==
    IF key = <<>> THEN 0
    ELSE 10 * KeyNumber(SubSeq(key, 1, Len(key) - 1))
         + (CHOOSE d \in 0..9 : DigitChars[d + 1] = key[Len(key)])

\* C13 as claimed: at the menu of m >= 1 masters the prompt accepts the keys
\* that write an index of 0..m-1 and no other key, and a return hands out the
\* menu entry of the chosen index.
C13_MenuIndexInRange ==
    /\ (pc = "gp_prompt" /\ Len(menu) >= 1) =>
        \A key \in KeyInputs :
            Accepts(ValidateClass(Len(menu)), key) <=> KeyNumber(key) < Len(menu)
    /\ (pc = "lookup_done" /\ arg.kind = "none" /\ env.working_master = 0) =>
        \E k \in 0..(Len(menu) - 1) : found = menu[k + 1]

\* rule r lets tcp port 22 in from any source
PermitsSsh(r) ==
    /\ r.ip_protocol = "tcp"
    /\ r.from_port <= 22
    /\ 22 <= r.to_port
    /\ r.cidr_ip = "0.0.0.0/0"

\* the groups of the account that instance h was launched with
GroupsOf(h) == {g \in groups : g.name \in account[h].security_groups}

\* C14 as claimed: the security group attached to a launched instance has
\* exactly one rule that lets tcp port 22 in from any source, whether the
\* process created the group or found it.
C14_AttachedGroupHasSshRule ==
    \A h \in launched :
        /\ GroupsOf(h) # {}
        /\ \A g \in GroupsOf(h) :
            Cardinality({r \in g.rules : PermitsSsh(r)}) = 1

\* C14: a launched instance is attached to the one group of the configured
\* name.  When the process created that group, its only rule lets tcp port 22
\* in from any source; when a group of that name existed, it is attached as
\* it was found: the process makes no group and never changes the rules of a
\* group, whatever they are.
C14_CreatedGroupHasSshRule ==
    /\ [](\A h \in launched :
            /\ account[h].security_groups = {ec2_security_group_name}
            /\ Cardinality(GroupsOf(h)) = 1
            /\ sg.reports[1] = "created" =>
                /\ sg.creates = 1
                /\ \A g \in GroupsOf(h) :
                    /\ Cardinality(g.rules) = 1
                    /\ \A r \in g.rules : PermitsSsh(r)
            /\ sg.reports[1] = "existing" => sg.creates = 0)
    /\ [][/\ \A g \in groups : g \in groups'
          /\ groups' # groups =>
                /\ pc = "el_secgrp"
                /\ groups = {}
                /\ sg'.reports = <<"created">>
         ]_vars

C14_Witness ==
    /\ launched # {}
    /\ sg.reports[1] = "existing"
    /\ account[inst].security_groups = {ec2_security_group_name}
    /\ GroupsOf(inst) = {BareGroup}

\* the install command of create_slaves has completed on h
Installed(h) == account[h].cmds = <<"ls", InstallSlaveCmd>>

\* the first n instances of the batch, in launch order
BatchPrefix(n) == [k \in 1..n |-> Len(account) - calls.run + k]

\* create_slaves is in its loop: past the reset, and not ended
InSlaveLoop ==
    /\ InCreateSlaves
    /\ \/ pc \in {"cs_loop", "el_connect", "el_secgrp", "el_run", "el_poll",
                  "el_after", "cs_tag_type", "cs_tag_master", "wa_probe",
                  "cs_append", "done"}
       \/ InInstallSlave

\* C15 as claimed: at every point of a create_slaves run the working slaves
\* are the instances of this batch whose install command has completed, in
\* launch order, and at the end there are as many as were asked for.
C15_SlavesAreInstalledBatch ==
    InCreateSlaves =>
        /\ env.working_slaves =
                BatchPrefix(Cardinality({h \in Batch : Installed(h)}))
        /\ pc = "done" => Len(env.working_slaves) = task.num

\* C15: create_slaves empties the working slaves after it has resolved the
\* master and asked for the name, not before: until then the list is what the
\* process had.  From then on the list holds, in launch order, the instances
\* of this batch whose iteration has ended: an instance is appended in the
\* step after its install command has completed.  Every member of the list
\* has its install completed, no instance that is being launched, waited on
\* or installed is in it, and at the end of the run it is the whole batch,
\* as many as were asked for.
C15_SlavesAccumulated ==
    /\ [](/\ \A k \in 1..Len(env.working_slaves) :
                Installed(env.working_slaves[k])
          /\ InSlaveLoop =>
                env.working_slaves =
                    BatchPrefix(Cardinality(
                        {h \in Batch :
                            Installed(h) /\ ~(pc = "cs_append" /\ h = inst)}))
          /\ (InCreateSlaves /\ pc = "done") =>
                /\ env.working_slaves = BatchPrefix(task.num)
                /\ calls.run = task.num)
    /\ [][/\ (\/ pc \in {"idle", "done"}
              \/ pc \in {"gp", "gp_prompt"} /\ gpRet = "cs_prompt") =>
                env'.working_slaves = env.working_slaves
          /\ (pc = "cs_prompt" /\ pc' = "cs_loop") => env'.working_slaves = <<>>
          /\ (pc = "cs_prompt" /\ pc' # "cs_loop") =>
                env'.working_slaves = env.working_slaves
          /\ pc = "cs_append" => env'.working_slaves = Append(env.working_slaves, inst)
         ]_vars

C15_Witness ==
    /\ InCreateSlaves
    /\ pc = "done"
    /\ script = <<>>
    /\ Cardinality(launched) = 2
    /\ calls.run = 1
    /\ env.working_slaves = <<Len(account)>>
    /\ Installed(Len(account) - 1)

\* the latest status check returned a status other than pending
NonPendingAnswer == polled.kind = "status" /\ polled.value # "pending"

\* the latest status check raised an error that the poll does not pass over
UnswallowedAnswer == polled.kind = "raise" /\ polled.class # "EC2ResponseError"

\* a probe has succeeded on the instance of the run
ProbeSucceeded == inst # 0 /\ account[inst].cmds # <<>>

\* C16 as claimed: the poll of ec2_launch ends if and only if a status check
\* returns a status other than pending, and wait_until_alive ends if and only
\* if a probe succeeds.
C16_LoopsEndOnlyOnAnswer ==
    /\ [](pc = "el_poll" => (<>(pc # "el_poll") => <>NonPendingAnswer))
    /\ [](pc = "el_poll" => (<>NonPendingAnswer => <>(pc # "el_poll")))
    /\ [](pc = "wa_probe" => (<>(pc # "wa_probe") => <>ProbeSucceeded))
    /\ [](pc = "wa_probe" => (<>ProbeSucceeded => <>(pc # "wa_probe")))

\* C16: the poll of ec2_launch ends if and only if a status check returns a
\* status other than pending or raises an error other than the cloud-API
\* error it passes over, and wait_until_alive ends if and only if a probe
\* succeeds.  Neither loop has a bound: whatever the number of turns taken,
\* one more turn that stays in the loop is possible, and while the process is
\* in a loop it has neither returned nor failed.
C16_LoopsEndOnAnswerOrError ==
    /\ [](pc = "el_poll" =>
            (<>(pc # "el_poll") => <>(NonPendingAnswer \/ UnswallowedAnswer)))
    /\ [](pc = "el_poll" =>
            (<>(NonPendingAnswer \/ UnswallowedAnswer) => <>(pc # "el_poll")))
    /\ [](pc = "wa_probe" => (<>(pc # "wa_probe") => <>ProbeSucceeded))
    /\ [](pc = "wa_probe" => (<>ProbeSucceeded => <>(pc # "wa_probe")))
    /\ [](pc = "el_poll" =>
            /\ fatal = NoFatal
            /\ status = "pending"
            /\ ~NonPendingAnswer /\ ~UnswallowedAnswer
            /\ ENABLED <<ElPollLive /\ pc' = "el_poll">>_vars)
    /\ [](pc = "wa_probe" =>
            /\ fatal = NoFatal
            /\ ~ProbeSucceeded
            /\ ENABLED <<WaProbeLive /\ pc' = "wa_probe">>_vars)

C16_Witness ==
    /\ pc = "wa_probe"
    /\ polls = MaxPolls + 1
    /\ polled.kind = "status"
    /\ probes = MaxProbes + 1

\* C17 as claimed: in a create_slaves run the master is resolved once: the
\* master that install_slave resolves for a slave is the instance whose id
\* was written as the slave's back-reference, and the operator is not asked
\* for a master after the first resolution.
C17_MasterResolvedOnce ==
    InCreateSlaves =>
        /\ ~(pc = "gp_prompt" /\ gpRet = "is_sudo")
        /\ pc \in {"is_sudo", "cs_append"} =>
            /\ found = master
            /\ account[inst].tags["puppet:master_id"] = account[found].id
        /\ pc = "cs_append" => is_master = master

\* C18: an instance that this process launched gets its name tag before its
\* role tag: whenever it carries puppet:type it carries a puppet:name that is
\* not empty, and the step that writes the role tag finds the name tag there.
\* So when create_slaves has resolved a master that this process launched,
\* the default slave name is defined and the name prompt does not fail.
C18_NameBeforeRole ==
    /\ [](\A h \in launched :
            HasTag(account[h].tags, "puppet:type") =>
                /\ HasTag(account[h].tags, "puppet:name")
                /\ account[h].tags["puppet:name"] # <<>>)
    /\ [][/\ \A h \in 1..Len(account) :
                (/\ h \in launched
                 /\ ~HasTag(account[h].tags, "puppet:type")
                 /\ HasTag(account'[h].tags, "puppet:type")) =>
                    /\ HasTag(account[h].tags, "puppet:name")
                    /\ account'[h].tags["puppet:name"] = account[h].tags["puppet:name"]
          /\ (pc = "cs_prompt" /\ found \in launched) =>
                /\ pc' = "cs_loop"
                /\ fatal' = NoFatal
                /\ slave_name' \in
                    ({account[found].tags["puppet:name"] \o <<"-slave">>}
                     \cup (SlaveNameInputs \ {<<>>}))
         ]_vars

C18_Witness ==
    /\ InCreateSlaves
    /\ pc = "cs_loop"
    /\ master \in launched
    /\ IsMaster(account[master])
    /\ slave_name = account[master].tags["puppet:name"] \o <<"-slave">>

====
